---- MODULE Spec2Model ----
(***************************************************************************)
(* PyERP (py_erp.py): the ERPLAB .erp -> MNE .fif conversion routine       *)
(* erp_to_fif and the plotting front end ErpProcessorApp.                   *)
(*                                                                         *)
(* Numbers.  Amplitudes and times are quantities mant * 10^exp / div.      *)
(* The input file holds plain numbers (exp = 0, div = 1); "* 1e-6",        *)
(* "/ 1000.0", "* 1e6" and "* 1000" shift the exponent and a mean of n     *)
(* values multiplies div by n.  Binary rounding of the floating point      *)
(* operations is not represented.                                          *)
(*                                                                         *)
(* Specifications.  ConvSpec: erp_to_fif alone, over every input struct    *)
(* within the bounds.  Spec: the application over the texts the user may   *)
(* type into the plot option widgets.  LegendSpec: the application with    *)
(* the Edit Legend Labels dialog, over a few plot selections.              *)
(***************************************************************************)
EXTENDS Integers, Sequences, FiniteSets, TLC

\* ---------------------------------------------------------------- bounds
MaxChan == 2        \* rows of bindata / entries of chanlocs
MaxPnts == 2        \* time samples per bin
MaxBin == 2         \* bins (third axis of bindata, and the nbin field)

\* An optional value: Python's None, or a raised ValueError, is NoNumber / NoList
Some(v)  == [ok |-> TRUE, val |-> v]
NoNumber == [ok |-> FALSE, val |-> 0]
NoList   == [ok |-> FALSE, val |-> <<>>]

\* ---------------------------------------------------------------- numbers
Sci(m, e) == [mant |-> m, exp |-> e, div |-> 1]
Shift(x, p) == [x EXCEPT !.exp = @ + p]

\* ---------------------------------------------------------------- files
ErpPaths == {"data/a.erp", "data/b.erp"}
FifPaths == {"data/out.fif", "data/old.fif"}
Basename ==
  [p \in ErpPaths \cup FifPaths |->
     CASE p = "data/a.erp" -> "a.erp"
       [] p = "data/b.erp" -> "b.erp"
       [] p = "data/out.fif" -> "out.fif"
       [] p = "data/old.fif" -> "old.fif"]

Absent  == [state |-> "absent", evokeds |-> <<>>]    \* no file at the path
Corrupt == [state |-> "corrupt", evokeds |-> <<>>]   \* a file mne.read_evokeds cannot read
FifFile(evoked_list) == [state |-> "written", evokeds |-> evoked_list]

\* ---------------------------------------------------------------- input
ChanPool == {"Cz", "Pz", "Fz"}
SRates   == {-1, 0, 250}
FirstTimes == {-200, 0}
Gains    == {-1, 3}

InjSeqs(S, n) == {s \in [1..n -> S] : \A i, j \in 1..n : i # j => s[i] # s[j]}
LabelSeqs == UNION {InjSeqs(ChanPool, n) : n \in 0..MaxChan}

\* The content of an .erp file as scipy.io.loadmat returns it.
\*   kind       "unreadable": loadmat raises; "noERP": no 'ERP' variable;
\*              "nofield": an ERP struct lacking one of the fields read;
\*              "erp": an ERP struct with the fields read by erp_to_fif
\*   nchan, npnts, depth   shape of bindata (channels x points x bins)
\*   gain       bindata[c, t, b] = gain * (100*(c+1) + 10*(t+1) + (b+1))
\*   first_ms   times[0]
\*   has_labels whether chanlocs has a 'labels' field; labels its content
ErpStructs ==
  [kind : {"erp"}, nchan : 1..MaxChan, npnts : 1..MaxPnts, depth : 0..MaxBin,
   nbin : 0..MaxBin, srate : SRates, first_ms : FirstTimes, gain : Gains,
   has_labels : {TRUE}, labels : LabelSeqs]
  \cup
  [kind : {"erp"}, nchan : 1..MaxChan, npnts : 1..MaxPnts, depth : 0..MaxBin,
   nbin : 0..MaxBin, srate : SRates, first_ms : FirstTimes, gain : Gains,
   has_labels : {FALSE}, labels : {<<>>}]

BrokenFile(k) ==
  [kind |-> k, nchan |-> 1, npnts |-> 1, depth |-> 0, nbin |-> 0, srate |-> 250,
   first_ms |-> 0, gain |-> 3, has_labels |-> FALSE, labels |-> <<>>]
BrokenStructs == {BrokenFile(k) : k \in {"unreadable", "noERP", "nofield"}}

\* bindata[c, t, bin_idx], 0-based like the numpy index
bindata(erp, c, t, bin_idx) == erp.gain * (100 * (c + 1) + 10 * (t + 1) + (bin_idx + 1))
times_ms(erp, t) == erp.first_ms + 4 * t

\* ---------------------------------------------------------------- erp_to_fif
Digit == <<"0", "1", "2", "3", "4", "5", "6", "7", "8", "9">>
\* f'{n:03}' for 0 <= n <= 999
Pad03(n) == Digit[(n \div 100) + 1] \o Digit[((n \div 10) % 10) + 1] \o Digit[(n % 10) + 1]

\* mutant: range(num_channels) used without the + 1
default_ch_names_zero_based(num_channels) ==
  [i \in 1..num_channels |-> "EEG" \o Pad03(i - 1)]

default_ch_names(num_channels) == [i \in 1..num_channels |-> "EEG" \o Pad03((i - 1) + 1)]

ch_names_of(erp) ==
  IF erp.has_labels /\ Len(erp.labels) > 0
  THEN [i \in 1..Len(erp.labels) |-> erp.labels[i]]
  ELSE default_ch_names(erp.nchan)

create_info(names, sfreq) == [ch_names |-> names, sfreq |-> sfreq]

\* mutant: the label counts from 0
bin_comment_zero_based(bin_idx) == "Bin " \o ToString(bin_idx)

bin_comment(bin_idx) == "Bin " \o ToString(bin_idx + 1)

\* mutant: every record takes the first bin slice
bin_data_volts_first_bin(erp, bin_idx) ==
  [c \in 1..erp.nchan |->
     [t \in 1..erp.npnts |-> Shift(Sci(bindata(erp, c - 1, t - 1, 0), 0), -6)]]

bin_data_volts(erp, bin_idx) ==
  [c \in 1..erp.nchan |->
     [t \in 1..erp.npnts |-> Shift(Sci(bindata(erp, c - 1, t - 1, bin_idx), 0), -6)]]

tmin_of(erp) == Shift(Sci(times_ms(erp, 0), 0), -3)

EvokedArray(data, info, tmin, comment) ==
  [data |-> data, info |-> info, tmin |-> tmin, comment |-> comment]

\* mutant: each record starts at the time of its own index, times_s[bin_idx]
make_evoked_own_tmin(erp, info, bin_idx) ==
  EvokedArray(bin_data_volts(erp, bin_idx), info,
              Shift(Sci(times_ms(erp, bin_idx), 0), -3), bin_comment(bin_idx))

\* lines 72-73: the evoked of one bin
make_evoked(erp, info, bin_idx) ==
  EvokedArray(bin_data_volts(erp, bin_idx), info, tmin_of(erp), bin_comment(bin_idx))

\* mutant: only a negative rate is rejected
sfreq_rejected_negative_only(info) == info.sfreq < 0

\* if info['sfreq'] <= 0: raise ValueError
sfreq_rejected(info) == info.sfreq <= 0

\* mutant: the loop stops one bin early, range(nbin - 1)
RECURSIVE build_evokeds_one_short(_, _, _, _)
build_evokeds_one_short(erp, info, bin_idx, evoked_list) ==
  IF bin_idx >= erp.nbin - 1
  THEN [raised |-> "", evoked_list |-> evoked_list]
  ELSE IF bin_idx >= erp.depth
  THEN [raised |-> "IndexError", evoked_list |-> evoked_list]
  ELSE IF Len(info.ch_names) # erp.nchan
  THEN [raised |-> "ValueError", evoked_list |-> evoked_list]
  ELSE build_evokeds_one_short(erp, info, bin_idx + 1,
                               Append(evoked_list, make_evoked(erp, info, bin_idx)))

\* for bin_idx in range(nbin): ... evoked_list.append(evoked)
\* bindata[:, :, bin_idx] raises IndexError past the third axis; EvokedArray
\* raises ValueError when the rows of the data are not the channels of info.
RECURSIVE build_evokeds(_, _, _, _)
build_evokeds(erp, info, bin_idx, evoked_list) ==
  IF bin_idx >= erp.nbin
  THEN [raised |-> "", evoked_list |-> evoked_list]
  ELSE IF bin_idx >= erp.depth
  THEN [raised |-> "IndexError", evoked_list |-> evoked_list]
  ELSE IF Len(info.ch_names) # erp.nchan
  THEN [raised |-> "ValueError", evoked_list |-> evoked_list]
  ELSE build_evokeds(erp, info, bin_idx + 1,
                     Append(evoked_list, make_evoked(erp, info, bin_idx)))

\* mutant: "except ValueError": any other exception escapes the call
conv_failure_value_errors_only(input_file, e, has_erp, steps, names, evoked_list) ==
  [ok |-> FALSE, returned |-> e = "ValueError",
   message |-> IF e = "ValueError"
               THEN <<"An error occurred during ERP to FIF conversion: ", e,
                      "Input file: ", input_file>>
                    \o (IF has_erp THEN <<"ERP structure keys: ">> ELSE <<>>)
               ELSE <<>>,
   steps |-> steps, ch_names |-> names, evoked_list |-> evoked_list,
   handed |-> steps # <<>> /\ steps[Len(steps)] = "write_evokeds",
   input_file |-> input_file]

\* except Exception as e: ... return False, error_message
\* returned: the call came back with a value (FALSE: the exception escaped)
conv_failure(input_file, e, has_erp, steps, names, evoked_list) ==
  [ok |-> FALSE, returned |-> TRUE,
   message |-> <<"An error occurred during ERP to FIF conversion: ", e,
                 "Input file: ", input_file>>
               \o (IF has_erp THEN <<"ERP structure keys: ">> ELSE <<>>),
   steps |-> steps, ch_names |-> names, evoked_list |-> evoked_list,
   handed |-> steps # <<>> /\ steps[Len(steps)] = "write_evokeds",
   input_file |-> input_file]

conv_success(input_file, output_file, steps, names, evoked_list) ==
  [ok |-> TRUE, returned |-> TRUE,
   message |-> <<"Successfully converted ", Basename[input_file], " to ",
                 Basename[output_file]>>,
   steps |-> steps, ch_names |-> names, evoked_list |-> evoked_list,
   handed |-> TRUE, input_file |-> input_file]

no_conv ==
  [ok |-> FALSE, returned |-> FALSE, message |-> <<>>, steps |-> <<>>, ch_names |-> <<>>,
   evoked_list |-> <<>>, handed |-> FALSE, input_file |-> "", called |-> FALSE,
   output_file |-> "", write_ok |-> FALSE, repeat |-> FALSE]

\* The outcome of one call: the return value (ok, message), the list built,
\* whether it was handed to mne.write_evokeds, and the library calls made.
erp_to_fif(input_file, output_file, disk, write_ok) ==
  LET erp == disk[input_file] IN
  IF erp.kind = "unreadable"
  THEN conv_failure(input_file, "OSError", FALSE, <<"loadmat">>, <<>>, <<>>)
  ELSE IF erp.kind = "noERP"
  THEN conv_failure(input_file, "KeyError", FALSE, <<"loadmat">>, <<>>, <<>>)
  ELSE IF erp.kind = "nofield"
  THEN conv_failure(input_file, "ValueError", TRUE, <<"loadmat">>, <<>>, <<>>)
  ELSE
    LET names == ch_names_of(erp)
        info == create_info(names, erp.srate)
        s2 == <<"loadmat", "create_info">>
    IN
    IF sfreq_rejected(info)
    THEN conv_failure(input_file, "ValueError", TRUE, s2, names, <<>>)
    ELSE
      LET built == build_evokeds(erp, info, 0, <<>>)
          s3 == s2 \o [i \in 1..Len(built.evoked_list) |-> "EvokedArray"]
      IN
      IF built.raised # ""
      THEN conv_failure(input_file, built.raised, TRUE, s3, names, built.evoked_list)
      ELSE IF ~write_ok
      THEN conv_failure(input_file, "OSError", TRUE, Append(s3, "write_evokeds"),
                        names, built.evoked_list)
      ELSE conv_success(input_file, output_file, Append(s3, "write_evokeds"),
                        names, built.evoked_list)

\* mutant: records are added to a file that is already there
write_evokeds_append(files, output_file, evoked_list) ==
  [files EXCEPT ![output_file] = FifFile(@.evokeds \o evoked_list)]

\* mne.write_evokeds(output_file, evoked_list, overwrite=True)
write_evokeds(files, output_file, evoked_list) ==
  [files EXCEPT ![output_file] = FifFile(evoked_list)]

\* mne.read_evokeds(fif_file_path): the evokeds of a file written by
\* write_evokeds, with the attributes the plotting code reads.
\* times[k] = tmin + k / sfreq, kept as the triple (tmin, k, sfreq).
read_evokeds(content) ==
  [i \in 1..Len(content) |->
     [ch_names |-> content[i].info.ch_names,
      data |-> content[i].data,
      times |-> [k \in 1..(IF Len(content[i].data) = 0 THEN 0
                           ELSE Len(content[i].data[1])) |->
                   [tmin |-> content[i].tmin, k |-> k - 1,
                    sfreq |-> content[i].info.sfreq, exp |-> 0]],
      comment |-> content[i].comment]]

\* ---------------------------------------------------------------- text fields
\* The text of a comma-separated entry is kept as its pieces between commas
\* (what str.split(',') returns): the text is empty iff it is the one piece "".
EmptyText == <<"">>

Strip(piece) ==
  CASE piece = " " -> ""
    [] piece = " 1" -> "1"
    [] piece = " Pz" -> "Pz"
    [] piece = "Fz " -> "Fz"
    [] OTHER -> piece

\* int(s): the integer, or NoNumber where int() raises ValueError
IntNumerals == {ToString(n) : n \in -1..(MaxBin + 1)} \cup {"500"}
int(s) ==
  IF s \in IntNumerals
  THEN Some(IF s = "500" THEN 500 ELSE CHOOSE n \in -1..(MaxBin + 1) : ToString(n) = s)
  ELSE NoNumber

\* float(s): the number, or NoNumber where float() raises ValueError
float(s) ==
  CASE s = "-200" -> Some(-200)
    [] s = "800" -> Some(800)
    [] s = "-5" -> Some(-5)
    [] s = "5" -> Some(5)
    [] s = "-9" -> Some(-9)
    [] s = "100" -> Some(100)
    [] s = "250" -> Some(250)
    [] OTHER -> NoNumber

\* [f(val.strip()) for val in pieces if val.strip()]; NoList if f raises on one
stripped(pieces) == SelectSeq([i \in 1..Len(pieces) |-> Strip(pieces[i])],
                              LAMBDA x : x # "")

parse_floats(pieces) ==
  LET xs == stripped(pieces) IN
  IF \E i \in 1..Len(xs) : ~float(xs[i]).ok THEN NoList
  ELSE Some([i \in 1..Len(xs) |-> float(xs[i]).val])

parse_bin_indices(pieces) ==
  LET xs == stripped(pieces) IN
  IF \E i \in 1..Len(xs) : ~int(xs[i]).ok THEN NoList
  ELSE Some([i \in 1..Len(xs) |-> int(xs[i]).val - 1])

\* ---------------------------------------------------------------- plotting
Range(s) == {s[i] : i \in 1..Len(s)}
index(s, x) == CHOOSE i \in 1..Len(s) : s[i] = x /\ \A j \in 1..(i - 1) : s[j] # x

RECURSIVE SumMant(_, _)
SumMant(arrs, t) ==
  IF arrs = <<>> THEN 0 ELSE arrs[1][t].mant + SumMant(Tail(arrs), t)

MinLen(arrs) == CHOOSE n \in {Len(arrs[i]) : i \in 1..Len(arrs)} :
                  \A i \in 1..Len(arrs) : n <= Len(arrs[i])

\* np.mean(np.array([d[:min_len] for d in arrs]), axis=0) for arrays of one unit
mean_arrays(arrs) ==
  [t \in 1..MinLen(arrs) |->
     [mant |-> SumMant(arrs, t), exp |-> arrs[1][t].exp,
      div |-> arrs[1][t].div * Len(arrs)]]

microvolts(row) == [t \in 1..Len(row) |-> Shift(row[t], 6)]
milliseconds(times) == [t \in 1..Len(times) |-> [times[t] EXCEPT !.exp = 3]]

\* mutant: only the upper end is checked
in_range_upper_only(bin_idx, evokeds) == bin_idx < Len(evokeds)

\* not (0 <= bin_idx < len(self.evokeds_data)): continue
in_range(bin_idx, evokeds) == 0 <= bin_idx /\ bin_idx < Len(evokeds)

\* evokeds[bin_idx] for a Python list: a negative index counts from the end
py_item(evokeds, bin_idx) ==
  IF bin_idx < 0 THEN evokeds[Len(evokeds) + bin_idx + 1] ELSE evokeds[bin_idx + 1]

\* lines 530-545: one waveform per selected bin, the mean of the found channels
avg_channel_waveforms(evokeds, target_channels, target_bin_indices) ==
  LET bins == SelectSeq(target_bin_indices, LAMBDA b : in_range(b, evokeds))
      found(b) == SelectSeq(target_channels,
                            LAMBDA ch : ch \in Range(py_item(evokeds, b).ch_names))
      item(b) ==
        LET ev_bin == py_item(evokeds, b) IN
        [data |-> mean_arrays([i \in 1..Len(found(b)) |->
                    microvolts(ev_bin.data[index(ev_bin.ch_names, found(b)[i])])]),
         times |-> milliseconds(ev_bin.times),
         bin_comment |-> ev_bin.comment]
      kept == SelectSeq(bins, LAMBDA b : found(b) # <<>>)
  IN [i \in 1..Len(kept) |-> item(kept[i])]

\* lines 547-557: the waveforms of one channel, one per selected bin
channel_waveforms(evokeds, ch_name, target_bin_indices) ==
  LET bins == SelectSeq(target_bin_indices,
                 LAMBDA b : in_range(b, evokeds) /\ ch_name \in Range(py_item(evokeds, b).ch_names))
      item(b) ==
        LET ev_bin == py_item(evokeds, b) IN
        [data |-> microvolts(ev_bin.data[index(ev_bin.ch_names, ch_name)]),
         times |-> milliseconds(ev_bin.times),
         bin_comment |-> ev_bin.comment]
  IN [i \in 1..Len(bins) |-> item(bins[i])]

\* waveforms_by_main_group as the sequence of its (key, value) items in
\* insertion order; assigning to a key already present keeps its position.
waveform_groups(evokeds, target_channels, target_bin_indices, do_avg_channels) ==
  IF do_avg_channels
  THEN LET w == avg_channel_waveforms(evokeds, target_channels, target_bin_indices)
       IN IF w # <<>> THEN <<[key |-> "Avg Channels", items |-> w]>> ELSE <<>>
  ELSE LET first == SelectSeq([i \in 1..Len(target_channels) |-> i],
                      LAMBDA i : \A j \in 1..(i - 1) : target_channels[j] # target_channels[i])
           all == [i \in 1..Len(first) |->
                     [key |-> target_channels[first[i]],
                      items |-> channel_waveforms(evokeds, target_channels[first[i]],
                                                  target_bin_indices)]]
       IN SelectSeq(all, LAMBDA g : g.items # <<>>)

\* lines 559-581: the lines drawn for one group
group_lines(g, do_avg_bins) ==
  IF do_avg_bins
  THEN <<[label |-> g.key \o " - Avg Bins",
          ydata |-> mean_arrays([i \in 1..Len(g.items) |-> g.items[i].data]),
          xdata |-> SubSeq(g.items[1].times, 1,
                           MinLen([i \in 1..Len(g.items) |-> g.items[i].data]))]>>
  ELSE [i \in 1..Len(g.items) |->
          [label |-> g.key \o " - " \o g.items[i].bin_comment,
           ydata |-> g.items[i].data, xdata |-> g.items[i].times]]

RECURSIVE Flatten(_)
Flatten(ss) == IF ss = <<>> THEN <<>> ELSE ss[1] \o Flatten(Tail(ss))

\* mutant: the legend always shows the default label
legend_label_default_only(custom, lbl) == lbl

\* self.custom_legend_labels.get(lbl, lbl)
legend_label(custom, lbl) == IF lbl \in DOMAIN custom THEN custom[lbl] ELSE lbl

\* The axes: the lines drawn, title, legend entries (empty: no legend),
\* x and y limits (NoList: autoscale) and the vertical marker lines.
initial_axes ==
  [lines |-> <<>>, title |-> "Load data and configure plot options",
   legend |-> <<>>, xlim |-> NoList, ylim |-> NoList, vlines |-> <<>>]

has_data(axes) == axes.lines # <<>> \/ axes.vlines # <<>>

\* What one handler run leaves behind.
plot_result(ret, msgs, axes, labels, groups, bins) ==
  [ret |-> ret, msgs |-> msgs, axes |-> axes, last_plot_labels |-> labels,
   last_plot_handles |-> IF labels = <<>> THEN <<>> ELSE axes.lines,
   groups |-> groups, target_bin_indices |-> bins]

_initialize_plot(ret, msgs) == plot_result(ret, msgs, initial_axes, <<>>, <<>>, <<>>)

\* _update_plot_display over the widget contents e, the axes as they are, the
\* loaded dataset and the custom legend labels.
_update_plot_display(evokeds, fif_file, e, axes, custom) ==
  IF ~evokeds.ok
  THEN _initialize_plot("no_data", <<<<"showwarning", "No Data">>>>)
  ELSE
  LET ts == float(e.time_start)
      te == float(e.time_end)
      both == e.y_min # "" /\ e.y_max # ""
      ymin == float(e.y_min)
      ymax == float(e.y_max)
      numeric_error == ~ts.ok \/ ~te.ok \/ (both /\ (~ymin.ok \/ ~ymax.ok))
      y_limits == IF both /\ ymin.val < ymax.val THEN Some(<<ymin.val, ymax.val>>) ELSE NoList
      ywarn == IF (both /\ ~(ymin.val < ymax.val)) \/ (~both /\ (e.y_min # "" \/ e.y_max # ""))
               THEN <<<<"showwarning", "Input Warning">>>> ELSE <<>>
      err == <<<<"showerror", "Input Error">>>>
      vparsed == IF e.v_lines = EmptyText THEN Some(<<>>) ELSE parse_floats(e.v_lines)
      user_v_lines_ms == IF ~vparsed.ok THEN <<>> ELSE vparsed.val
      vwarn == IF ~vparsed.ok THEN <<<<"showwarning", "Input Warning">>>> ELSE <<>>
      target_channels == stripped(e.channels)
      parsed_bins == parse_bin_indices(e.bins)
      target_bin_indices == parsed_bins.val
  IN
  IF numeric_error
  THEN plot_result("numeric_error", err, axes, <<>>, <<>>, <<>>)
  ELSE IF e.channels = EmptyText
  THEN plot_result("channels_required", ywarn \o err, axes, <<>>, <<>>, <<>>)
  ELSE IF e.bins = EmptyText
  THEN plot_result("bins_required", ywarn \o err, axes, <<>>, <<>>, <<>>)
  ELSE IF ~parsed_bins.ok
  THEN plot_result("bad_format", ywarn \o vwarn \o err, axes, <<>>, <<>>, <<>>)
  ELSE IF target_channels = <<>>
  THEN plot_result("no_valid_channels", ywarn \o vwarn \o err, axes, <<>>, <<>>, <<>>)
  ELSE IF target_bin_indices = <<>>
  THEN plot_result("no_valid_bins", ywarn \o vwarn \o err, axes, <<>>, <<>>, <<>>)
  ELSE
  LET groups == waveform_groups(evokeds.val, target_channels, target_bin_indices,
                                e.avg_channels)
      lines == Flatten([i \in 1..Len(groups) |-> group_lines(groups[i], e.avg_bins)])
      labels == [i \in 1..Len(lines) |-> lines[i].label]
      \* found_any_data_at_all is true exactly when a line is drawn, so the
      \* "(Check averaging options or selections)" title never appears
      title == IF lines = <<>> THEN e.title \o " (No data for selection)" ELSE e.title
      drawn ==
        [lines |-> lines, title |-> title,
         legend |-> [i \in 1..Len(labels) |-> legend_label(custom, labels[i])],
         xlim |-> Some(<<ts.val, te.val>>), ylim |-> y_limits, vlines |-> user_v_lines_ms]
  IN plot_result("drawn", ywarn \o vwarn, drawn, labels, groups, target_bin_indices)

\* ---------------------------------------------------------------- state
\* The text entries are read when a handler runs and nothing happens when the
\* user edits them, so the paths of the conversion frame and the DPI are
\* inputs of the handler that reads them; the plot option widgets are kept
\* because _load_fif_data plots with whatever they hold.
VARIABLES
  erp_files,             \* .erp files on disk: path -> struct
  fif_files,             \* .fif files on disk: path -> Absent, Corrupt or a written list
  conv,                  \* the last direct erp_to_fif call: its outcome, whether the
                         \* writer would succeed, whether it repeats the call before
  current_fif_file,      \* self.current_fif_file
  evokeds_data,          \* self.evokeds_data
  entries,               \* the plot option widgets
  ax,                    \* self.ax
  last_plot_handles,     \* self.last_plot_handles
  last_plot_labels,      \* self.last_plot_labels
  custom_legend_labels,  \* self.custom_legend_labels
  dialog,                \* the Edit Legend Labels dialog: whether it is open, and the
                         \* default labels its entry widgets were made for
  run                    \* the last handler run: its name, return point, message boxes,
                         \* the waveform groups and bin indices of a plot run, the DPI
                         \* text of an export run

disk == <<erp_files, fif_files>>
app  == <<current_fif_file, evokeds_data, entries, ax, last_plot_handles, last_plot_labels,
          custom_legend_labels, dialog, run>>
vars == <<disk, conv, app>>

ImagePaths == {"plot.png"}

\* ---- widget contents at construction (__init__)
default_entries ==
  [channels |-> <<"Pz">>, bins |-> <<"1">>, time_start |-> "-200", time_end |-> "800",
   y_min |-> "", y_max |-> "", v_lines |-> EmptyText, title |-> "ERP Waveform",
   avg_channels |-> FALSE, avg_bins |-> FALSE]

\* ---- what the user may type
ChannelTexts == {<<"Cz">>, <<"Cz", " Pz">>}
BinTexts ==
  {<<"1">>, <<"0", ToString(MaxBin)>>, <<" 1", "-1", ToString(MaxBin + 1)>>,
   <<ToString(MaxBin + 1)>>}
BadSelections ==
  {[channels |-> EmptyText, bins |-> <<"1">>], [channels |-> <<" ", "">>, bins |-> <<"1">>],
   [channels |-> <<"Fz ">>, bins |-> <<"1">>],
   [channels |-> <<"Cz">>, bins |-> EmptyText], [channels |-> <<"Cz">>, bins |-> <<" ", "">>],
   [channels |-> <<"Cz">>, bins |-> <<"1", "x">>],
   [channels |-> <<"Cz">>, bins |-> <<"1.5">>]}
\* (time_start, time_end, y_min, y_max)
NumericTexts ==
  {<<"abc", "800", "", "">>, <<"-200", "abc", "", "">>, <<"", "800", "", "">>,
   <<"-200", "800", "abc", "5">>, <<"-200", "800", "-5", "abc">>,
   <<"-200", "800", "abc", "">>, <<"-200", "800", "", "abc">>,
   <<"-200", "800", "-5", "5">>, <<"-200", "800", "5", "-9">>, <<"-200", "800", "-5", "">>}
VLineTexts == {<<"100">>, <<"100", "abc", "250">>}
DpiTexts  == {"500", "0", "x"}

\* The user changes the selection, or the numeric fields, or the marker lines.
Entries ==
  {[default_entries EXCEPT !.channels = c, !.bins = b, !.avg_channels = ac, !.avg_bins = ab] :
     c \in ChannelTexts, b \in BinTexts, ac \in BOOLEAN, ab \in BOOLEAN}
  \cup
  {[default_entries EXCEPT !.channels = x.channels, !.bins = x.bins] : x \in BadSelections}
  \cup
  {[default_entries EXCEPT !.channels = <<"Cz">>, !.time_start = n[1], !.time_end = n[2],
                           !.y_min = n[3], !.y_max = n[4]] : n \in NumericTexts}
  \cup
  {[default_entries EXCEPT !.channels = <<"Cz">>, !.v_lines = v] : v \in VLineTexts}

\* ---- handlers
\* no Edit Legend Labels dialog on screen
no_dialog == [open |-> FALSE, entry_widgets |-> <<>>]

show_plot(op, r) ==
  /\ ax' = r.axes
  /\ last_plot_handles' = r.last_plot_handles
  /\ last_plot_labels' = r.last_plot_labels
  /\ run' = [op |-> op, ret |-> r.ret, msgs |-> r.msgs, groups |-> r.groups,
             target_bin_indices |-> r.target_bin_indices, dpi_text |-> ""]

no_plot_run(op, ret, msgs) ==
  [op |-> op, ret |-> ret, msgs |-> msgs, groups |-> <<>>, target_bin_indices |-> <<>>,
   dpi_text |-> ""]

\* mutant: a read error leaves the dataset of the previous load in place
_load_fif_data_keeps_dataset(op, fif_file_path, files, pre) ==
  IF fif_file_path = "" \/ files[fif_file_path] = Absent
  THEN /\ evokeds_data' = NoList
       /\ show_plot(op, _initialize_plot("not_found", pre \o <<<<"showerror", "Error">>>>))
  ELSE IF files[fif_file_path] = Corrupt
  THEN /\ evokeds_data' = evokeds_data
       /\ show_plot(op, _initialize_plot("load_error",
                          pre \o <<<<"showerror", "FIF Load Error">>>>))
  ELSE LET loaded == Some(read_evokeds(files[fif_file_path].evokeds))
           r == _update_plot_display(loaded, current_fif_file', entries, ax,
                                     custom_legend_labels)
       IN /\ evokeds_data' = loaded
          /\ show_plot(op, [r EXCEPT !.msgs = pre \o <<<<"showinfo", "Success">>>> \o @])

\* _load_fif_data(fif_file_path) against the files as they are at the call;
\* pre: the message boxes the caller showed before
_load_fif_data(op, fif_file_path, files, pre) ==
  IF fif_file_path = "" \/ files[fif_file_path] = Absent
  THEN /\ evokeds_data' = NoList
       /\ show_plot(op, _initialize_plot("not_found", pre \o <<<<"showerror", "Error">>>>))
  ELSE IF files[fif_file_path] = Corrupt
  THEN /\ evokeds_data' = NoList
       /\ show_plot(op, _initialize_plot("load_error",
                          pre \o <<<<"showerror", "FIF Load Error">>>>))
  ELSE LET loaded == Some(read_evokeds(files[fif_file_path].evokeds))
           r == _update_plot_display(loaded, current_fif_file', entries, ax,
                                     custom_legend_labels)
       IN /\ evokeds_data' = loaded
          /\ show_plot(op, [r EXCEPT !.msgs = pre \o <<<<"showinfo", "Success">>>> \o @])

\* "Browse and Load FIF" with a file chosen in the dialog
BrowseAndLoadFif ==
  \E filename \in FifPaths :
    /\ ~dialog.open
    /\ current_fif_file' = filename
    /\ _load_fif_data("_browse_and_load_fif", filename, fif_files, <<>>)
    /\ UNCHANGED <<disk, conv, entries, custom_legend_labels, dialog>>

\* mutant: the output file is loaded whatever erp_to_fif returned
RunConversion_loads_after_failure(input_file, output_file, write_ok) ==
  /\ ~dialog.open
  /\ UNCHANGED <<erp_files, conv, entries, custom_legend_labels, dialog>>
  /\ IF input_file = "" \/ input_file \notin ErpPaths
     THEN /\ run' = no_plot_run("_run_conversion", "bad_input", <<<<"showerror", "Error">>>>)
          /\ UNCHANGED <<fif_files, current_fif_file, evokeds_data, ax,
                         last_plot_handles, last_plot_labels>>
     ELSE IF output_file = ""
     THEN /\ run' = no_plot_run("_run_conversion", "no_output", <<<<"showerror", "Error">>>>)
          /\ UNCHANGED <<fif_files, current_fif_file, evokeds_data, ax,
                         last_plot_handles, last_plot_labels>>
     ELSE LET r == erp_to_fif(input_file, output_file, erp_files, write_ok) IN
          /\ fif_files' = IF r.ok THEN write_evokeds(fif_files, output_file, r.evoked_list)
                          ELSE fif_files
          /\ current_fif_file' = output_file
          /\ _load_fif_data("_run_conversion", output_file, fif_files',
                            IF r.ok THEN <<<<"showinfo", "Conversion Success">>>>
                            ELSE <<<<"showerror", "Conversion Failed">>>>)

\* _run_conversion with the two path entries holding input_file and output_file
RunConversionWith(input_file, output_file, write_ok) ==
  /\ ~dialog.open
  /\ UNCHANGED <<erp_files, conv, entries, custom_legend_labels, dialog>>
  /\ IF input_file = "" \/ input_file \notin ErpPaths
     THEN /\ run' = no_plot_run("_run_conversion", "bad_input", <<<<"showerror", "Error">>>>)
          /\ UNCHANGED <<fif_files, current_fif_file, evokeds_data, ax,
                         last_plot_handles, last_plot_labels>>
     ELSE IF output_file = ""
     THEN /\ run' = no_plot_run("_run_conversion", "no_output", <<<<"showerror", "Error">>>>)
          /\ UNCHANGED <<fif_files, current_fif_file, evokeds_data, ax,
                         last_plot_handles, last_plot_labels>>
     ELSE LET r == erp_to_fif(input_file, output_file, erp_files, write_ok) IN
          IF r.ok
          THEN /\ fif_files' = write_evokeds(fif_files, output_file, r.evoked_list)
               /\ current_fif_file' = output_file
               /\ _load_fif_data("_run_conversion", output_file, fif_files',
                                 <<<<"showinfo", "Conversion Success">>>>)
          ELSE /\ run' = no_plot_run("_run_conversion", "conversion_failed",
                                     <<<<"showerror", "Conversion Failed">>>>)
               /\ UNCHANGED <<fif_files, current_fif_file, evokeds_data, ax,
                              last_plot_handles, last_plot_labels>>

\* what the two path entries may hold when "Convert ERP to FIF" is pressed
InputTexts == ErpPaths \cup {"", "data/none.erp"}
OutputTexts == FifPaths \cup {""}

\* "Convert ERP to FIF" with the two path entries as typed or browsed
RunConversion ==
  \E input_file \in InputTexts, output_file \in OutputTexts, write_ok \in BOOLEAN :
    RunConversionWith(input_file, output_file, write_ok)

\* "Update Plot" after the user edited the plot option widgets
UpdatePlotWith(e) ==
  /\ ~dialog.open
  /\ entries' = e
  /\ show_plot("_update_plot_display",
               _update_plot_display(evokeds_data, current_fif_file, e, ax,
                                    custom_legend_labels))
  /\ UNCHANGED <<disk, conv, current_fif_file, evokeds_data, custom_legend_labels, dialog>>

UpdatePlot == \E e \in Entries : UpdatePlotWith(e)

\* mutant: the DPI text is used without the check
_export_plot_unchecked(axes, dpi_text, filename, save_ok) ==
  IF ~has_data(axes)
  THEN [ret |-> "no_plot", msgs |-> <<<<"showwarning", "Export Error">>>>]
  ELSE IF filename = ""
  THEN [ret |-> "cancelled", msgs |-> <<>>]
  ELSE IF ~save_ok
  THEN [ret |-> "save_failed", msgs |-> <<<<"showerror", "Export Error">>>>]
  ELSE [ret |-> "saved", msgs |-> <<<<"showinfo", "Export Success">>>>]

\* _export_plot: the return point and the message box shown
_export_plot(axes, dpi_text, filename, save_ok) ==
  IF ~has_data(axes)
  THEN [ret |-> "no_plot", msgs |-> <<<<"showwarning", "Export Error">>>>]
  ELSE IF ~int(dpi_text).ok \/ int(dpi_text).val <= 0
  THEN [ret |-> "bad_dpi", msgs |-> <<<<"showerror", "Input Error">>>>]
  ELSE IF filename = ""
  THEN [ret |-> "cancelled", msgs |-> <<>>]
  ELSE IF ~save_ok
  THEN [ret |-> "save_failed", msgs |-> <<<<"showerror", "Export Error">>>>]
  ELSE [ret |-> "saved", msgs |-> <<<<"showinfo", "Export Success">>>>]

\* "Save Plot" with the DPI entry as typed; the image file is not kept
ExportPlot ==
  \E d \in DpiTexts, filename \in ImagePaths \cup {""}, save_ok \in BOOLEAN :
    LET r == _export_plot(ax, d, filename, save_ok) IN
    /\ ~dialog.open
    /\ run' = [no_plot_run("_export_plot", r.ret, r.msgs) EXCEPT !.dpi_text = d]
    /\ UNCHANGED <<disk, conv, current_fif_file, evokeds_data, entries, ax,
                   last_plot_handles, last_plot_labels, custom_legend_labels, dialog>>

\* ---- the Edit Legend Labels dialog (_edit_legends)
\* The dialog takes the grab (grab_set), so while it is open only its own four
\* buttons can be pressed. What the user types into an entry is read when
\* Apply or OK is pressed, so the texts are inputs of apply_changes.
\* the keys of a dict filled in the order of labels
dict_keys(labels) ==
  LET first == SelectSeq([i \in 1..Len(labels) |-> i],
                  LAMBDA i : \A j \in 1..(i - 1) : labels[j] # labels[i])
  IN [i \in 1..Len(first) |-> labels[first[i]]]

\* what the user may leave in the entries of the dialog: the default label
\* or a custom text
CustomTexts == {"Target"}
EntryTexts(entry_widgets) ==
  {texts \in [Range(entry_widgets) -> Range(entry_widgets) \cup CustomTexts] :
     \A l \in Range(entry_widgets) : texts[l] \in {l} \cup CustomTexts}

\* "Edit Legends"
EditLegends ==
  /\ ~dialog.open
  /\ IF last_plot_labels = <<>>
     THEN /\ run' = no_plot_run("_edit_legends", "no_legends",
                                <<<<"showwarning", "No Legends">>>>)
          /\ dialog' = dialog
     ELSE /\ run' = no_plot_run("_edit_legends", "opened", <<>>)
          /\ dialog' = [open |-> TRUE, entry_widgets |-> dict_keys(last_plot_labels)]
  /\ UNCHANGED <<disk, conv, current_fif_file, evokeds_data, entries, ax,
                 last_plot_handles, last_plot_labels, custom_legend_labels>>

\* apply_changes() on the custom labels as they are (custom) with the entries
\* holding texts: every entry is stored, then the legend is drawn again
apply_changes(custom, texts) ==
  LET keys == Range(dialog.entry_widgets)
      stored == [l \in (DOMAIN custom) \cup keys |->
                   IF l \in keys THEN texts[l] ELSE custom[l]]
  IN /\ custom_legend_labels' = stored
     /\ ax' = IF last_plot_handles # <<>>
              THEN [ax EXCEPT !.legend = [i \in 1..Len(last_plot_labels) |->
                                            legend_label(stored, last_plot_labels[i])]]
              ELSE ax

\* "Apply"
ApplyChanges ==
  /\ dialog.open
  /\ \E texts \in EntryTexts(dialog.entry_widgets) :
       apply_changes(custom_legend_labels, texts)
  /\ run' = no_plot_run("apply_changes", "applied", <<>>)
  /\ UNCHANGED <<disk, conv, current_fif_file, evokeds_data, entries,
                 last_plot_handles, last_plot_labels, dialog>>

\* "OK": apply_changes(), then the dialog is destroyed
OnOk ==
  /\ dialog.open
  /\ \E texts \in EntryTexts(dialog.entry_widgets) :
       apply_changes(custom_legend_labels, texts)
  /\ dialog' = no_dialog
  /\ run' = no_plot_run("on_ok", "closed", <<>>)
  /\ UNCHANGED <<disk, conv, current_fif_file, evokeds_data, entries,
                 last_plot_handles, last_plot_labels>>

\* mutant: the custom labels are not cleared before the defaults are applied
OnReset_without_clear ==
  /\ dialog.open
  /\ apply_changes(custom_legend_labels, [l \in Range(dialog.entry_widgets) |-> l])
  /\ run' = no_plot_run("on_reset", "applied", <<>>)
  /\ UNCHANGED <<disk, conv, current_fif_file, evokeds_data, entries,
                 last_plot_handles, last_plot_labels, dialog>>

\* "Reset to Defaults": the dict is cleared, every entry is given its default
\* label, then apply_changes()
OnReset ==
  /\ dialog.open
  /\ apply_changes(<<>>, [l \in Range(dialog.entry_widgets) |-> l])
  /\ run' = no_plot_run("on_reset", "applied", <<>>)
  /\ UNCHANGED <<disk, conv, current_fif_file, evokeds_data, entries,
                 last_plot_handles, last_plot_labels, dialog>>

\* "Cancel": dialog.destroy
Cancel ==
  /\ dialog.open
  /\ dialog' = no_dialog
  /\ run' = no_plot_run("cancel", "closed", <<>>)
  /\ UNCHANGED <<disk, conv, current_fif_file, evokeds_data, entries, ax,
                 last_plot_handles, last_plot_labels, custom_legend_labels>>

\* ---- the application
labelled_erp ==
  [kind |-> "erp", nchan |-> MaxChan, npnts |-> MaxPnts, depth |-> MaxBin, nbin |-> MaxBin,
   srate |-> 250, first_ms |-> -200, gain |-> 3, has_labels |-> TRUE,
   labels |-> SubSeq(<<"Cz", "Pz", "Fz", "Oz">>, 1, MaxChan)]
zero_rate_erp == [labelled_erp EXCEPT !.srate = 0]

AppInit ==
  /\ current_fif_file = ""
  /\ evokeds_data = NoList
  /\ entries = default_entries
  /\ ax = initial_axes
  /\ last_plot_handles = <<>>
  /\ last_plot_labels = <<>>
  /\ custom_legend_labels = <<>>
  /\ dialog = no_dialog
  /\ run = no_plot_run("__init__", "", <<>>)

Init ==
  /\ AppInit
  /\ erp_files = [p \in ErpPaths |->
                    IF p = "data/a.erp" THEN labelled_erp ELSE zero_rate_erp]
  /\ fif_files = [p \in FifPaths |-> IF p = "data/old.fif" THEN Corrupt ELSE Absent]
  /\ conv = no_conv

Next == BrowseAndLoadFif \/ RunConversion \/ UpdatePlot \/ ExportPlot
Spec == Init /\ [][Next]_vars

\* ---- the application with its legend dialog, over the plot selections that
\* give one line, two lines, another line, no line, and an input error
LegendEntries ==
  {[default_entries EXCEPT !.channels = <<"Cz">>],
   [default_entries EXCEPT !.channels = <<"Cz", " Pz">>],
   [default_entries EXCEPT !.channels = <<"Cz">>, !.bins = <<"0", ToString(MaxBin)>>],
   [default_entries EXCEPT !.channels = <<"Cz">>, !.bins = <<ToString(MaxBin + 1)>>],
   [default_entries EXCEPT !.channels = <<"Cz">>, !.time_start = "abc"]}

UpdatePlotLegend == \E e \in LegendEntries : UpdatePlotWith(e)

LegendNext ==
  \/ BrowseAndLoadFif \/ RunConversion \/ UpdatePlotLegend
  \/ EditLegends \/ ApplyChanges \/ OnOk \/ OnReset \/ Cancel
LegendSpec == Init /\ [][LegendNext]_vars

\* ---- the conversion routine on its own, over every input struct
ConvInit ==
  /\ AppInit
  /\ \E s \in ErpStructs \cup BrokenStructs :
       erp_files = [p \in ErpPaths |->
                      IF p = "data/a.erp" THEN s ELSE BrokenFile("unreadable")]
  /\ fif_files = [p \in FifPaths |-> IF p = "data/old.fif" THEN Corrupt ELSE Absent]
  /\ conv = no_conv

\* One call of erp_to_fif and its effect on the disk.
Convert ==
  \E input_file \in ErpPaths, output_file \in FifPaths, write_ok \in BOOLEAN :
    LET r == erp_to_fif(input_file, output_file, erp_files, write_ok) IN
    /\ conv' = r @@ [called |-> TRUE, output_file |-> output_file, write_ok |-> write_ok,
                     repeat |-> conv.ok /\ conv.input_file = input_file
                                /\ conv.output_file = output_file]
    /\ fif_files' = IF r.ok THEN write_evokeds(fif_files, output_file, r.evoked_list)
                    ELSE fif_files
    /\ UNCHANGED <<erp_files, app>>

ConvNext == Convert
ConvSpec == ConvInit /\ [][ConvNext]_vars

\* ================================================================ properties
\* ---- erp_to_fif (checked under ConvSpec)
called_erp == erp_files[conv.input_file]

\* An input the conversion is meant for: an ERP struct with a positive sample
\* rate, a bin axis of at least nbin slices and, when chanlocs names the
\* channels, one name per row of bindata.
ValidInput(erp) ==
  /\ erp.kind = "erp"
  /\ erp.srate > 0
  /\ erp.depth >= erp.nbin
  /\ (erp.has_labels /\ Len(erp.labels) > 0) => Len(erp.labels) = erp.nchan

CountStep(name) == Cardinality({i \in 1..Len(conv.steps) : conv.steps[i] = name})

\* C1: for a valid input with nbin = N and C rows of bindata, the call hands
\* the writer a list of exactly N evoked records, each with C rows of data and
\* C channel names in its info, and returns True whenever the writer succeeds.
C1_RecordsPerBin ==
  (conv.called /\ ValidInput(called_erp)) =>
     /\ conv.handed
     /\ Len(conv.evoked_list) = called_erp.nbin
     /\ \A i \in 1..Len(conv.evoked_list) :
          /\ Len(conv.evoked_list[i].data) = called_erp.nchan
          /\ Len(conv.evoked_list[i].info.ch_names) = called_erp.nchan
     /\ conv.write_ok => conv.ok

C1_Witness ==
  /\ conv.called /\ ValidInput(called_erp) /\ conv.ok
  /\ called_erp.nbin = MaxBin /\ called_erp.nchan = MaxChan

\* C2: a call on a struct whose sample rate is zero or negative returns False,
\* never reaches the writer and leaves every output file as it was, whatever
\* the other fields hold.
C2_NonPositiveRateFails ==
  [][(erp_files[conv'.input_file].kind = "erp" /\ erp_files[conv'.input_file].srate <= 0)
       => (~conv'.ok /\ ~conv'.handed /\ fif_files' = fif_files)]_vars

C2_Witness ==
  /\ conv.called /\ called_erp.kind = "erp" /\ called_erp.srate <= 0
  /\ ValidInput([called_erp EXCEPT !.srate = 250]) /\ called_erp.nbin > 0
  /\ conv.write_ok /\ ~conv.ok

\* C4: every call comes back with a value; a failure while loading, reshaping
\* or writing yields (False, message) with the input path in the message, and
\* loadmat, create_info and write_evokeds are each called at most once.
C4_FailuresAreReturned ==
  conv.called =>
     /\ conv.returned
     /\ (\/ called_erp.kind # "erp"                           \* loading
         \/ called_erp.srate <= 0
         \/ called_erp.nbin > called_erp.depth                \* reshaping
         \/ (called_erp.nbin > 0 /\ Len(conv.ch_names) # called_erp.nchan)
         \/ ~conv.write_ok)                                   \* writing
        => ~conv.ok
     /\ ~conv.ok => \E i \in 1..Len(conv.message) : conv.message[i] = conv.input_file
     /\ \A name \in {"loadmat", "create_info", "write_evokeds"} : CountStep(name) <= 1
     /\ CountStep("EvokedArray") <= called_erp.nbin

C4_Witness ==
  conv.called /\ ~conv.ok /\ conv.handed /\ ValidInput(called_erp) /\ called_erp.nbin > 0

\* C5: a successful call that repeats the successful call before it (same
\* input file, same output path) builds the same list of records and leaves
\* the output file as the first call wrote it; and a successful call leaves
\* exactly its list in the output file, whatever the path held before.
C5_Idempotent ==
  [][conv'.ok =>
       /\ fif_files'[conv'.output_file] = FifFile(conv'.evoked_list)
       /\ (conv.ok /\ conv'.input_file = conv.input_file
                   /\ conv'.output_file = conv.output_file)
            => (conv'.evoked_list = conv.evoked_list
                /\ fif_files'[conv'.output_file] = fif_files[conv.output_file])]_vars

C5_Witness == conv.ok /\ conv.repeat /\ Len(conv.evoked_list) = MaxBin

\* C6: the value of record b at (c, t) is the input value bindata[c, t, b]
\* times 1e-6, for every bin, channel and sample.
C6_ScaledByMicro ==
  conv.called =>
    \A b \in 1..Len(conv.evoked_list) :
      /\ DOMAIN conv.evoked_list[b].data = 1..called_erp.nchan
      /\ \A c \in 1..called_erp.nchan :
           /\ DOMAIN conv.evoked_list[b].data[c] = 1..called_erp.npnts
           /\ \A t \in 1..called_erp.npnts :
                conv.evoked_list[b].data[c][t] =
                  [mant |-> bindata(called_erp, c - 1, t - 1, b - 1), exp |-> -6, div |-> 1]

C6_Witness ==
  /\ conv.ok /\ Len(conv.evoked_list) = MaxBin
  /\ called_erp.nchan = MaxChan /\ called_erp.npnts = MaxPnts

\* C8: the records of one call all carry the channel names computed for the
\* call, the sample rate of the struct and the start time times[0] / 1000.
C8_SharedInfo ==
  conv.called =>
    \A i \in 1..Len(conv.evoked_list) :
      /\ conv.evoked_list[i].info.ch_names = conv.ch_names
      /\ conv.evoked_list[i].info.sfreq = called_erp.srate
      /\ conv.evoked_list[i].tmin = [mant |-> called_erp.first_ms, exp |-> -3, div |-> 1]
      /\ \A j \in 1..Len(conv.evoked_list) :
           /\ conv.evoked_list[j].info = conv.evoked_list[i].info
           /\ conv.evoked_list[j].tmin = conv.evoked_list[i].tmin

C8_Witness == conv.ok /\ Len(conv.evoked_list) = MaxBin /\ called_erp.first_ms # 0

\* C9: without a 'labels' field, or with an empty one, the channels are named
\* EEG001, EEG002, ... one per row of bindata in row order; labels that are
\* present are the channel names, unchanged and in order.
DefaultNames == <<"EEG001", "EEG002", "EEG003", "EEG004", "EEG005">>
C9_ChannelNames ==
  (conv.called /\ called_erp.kind = "erp") =>
     IF ~called_erp.has_labels \/ Len(called_erp.labels) = 0
     THEN conv.ch_names = SubSeq(DefaultNames, 1, called_erp.nchan)
     ELSE conv.ch_names = called_erp.labels

C9_Witness ==
  /\ conv.ok /\ called_erp.nchan = MaxChan /\ Len(conv.evoked_list) > 0
  /\ (~called_erp.has_labels \/ Len(called_erp.labels) = 0)
  /\ conv.evoked_list[1].info.ch_names[MaxChan] = DefaultNames[MaxChan]

\* C10: record i (from 1) is labelled "Bin i" and holds bin slice i - 1 of
\* bindata; a successful call writes the records Bin 1 .. Bin nbin in order.
BinLabels == <<"Bin 1", "Bin 2", "Bin 3", "Bin 4", "Bin 5">>
C10_BinOrder ==
  conv.called =>
    /\ \A i \in 1..Len(conv.evoked_list) :
         /\ conv.evoked_list[i].comment = BinLabels[i]
         /\ \A c \in 1..called_erp.nchan, t \in 1..called_erp.npnts :
              conv.evoked_list[i].data[c][t].mant = bindata(called_erp, c - 1, t - 1, i - 1)
    /\ conv.ok =>
         /\ Len(conv.evoked_list) = called_erp.nbin
         /\ fif_files[conv.output_file].evokeds = conv.evoked_list

C10_Witness ==
  /\ conv.ok /\ Len(conv.evoked_list) = MaxBin /\ MaxBin >= 2
  /\ conv.evoked_list[MaxBin].comment = BinLabels[MaxBin]

\* ---- the plotting front end (checked under Spec)
ErrorShown(r) == \E i \in 1..Len(r.msgs) : r.msgs[i][1] = "showerror"
Garbled(text) == text # "" /\ ~float(text).ok
NotIntegers(pieces) == \E i \in 1..Len(pieces) : Strip(pieces[i]) # "" /\ ~int(Strip(pieces[i])).ok
loaded_ch_names == UNION {Range(evokeds_data.val[i].ch_names) : i \in 1..Len(evokeds_data.val)}

\* C3: in a plot of a dataset of N bins, a bin number outside 1..N adds no
\* waveform to any group and raises no error, and the in-range numbers of the
\* same selection each yield their waveform, in order, in every group: the one
\* group of the average-channels branch and each channel's group otherwise.
C3_OutOfRangeBinsSkipped ==
  LET N == Len(evokeds_data.val)
      kept == SelectSeq(run.target_bin_indices, LAMBDA b : 0 <= b /\ b <= N - 1)
      chans == Range(stripped(entries.channels)) \cap loaded_ch_names
  IN
  /\ run.ret = "drawn" =>
       /\ ~ErrorShown(run)
       /\ \A k \in 1..Len(run.groups) :
            /\ Len(run.groups[k].items) = Len(kept)
            /\ \A i \in 1..Len(kept) :
                 run.groups[k].items[i].bin_comment = evokeds_data.val[kept[i] + 1].comment
       /\ (kept # <<>> /\ chans # {}) =>
            IF entries.avg_channels
            THEN Len(run.groups) = 1 /\ run.groups[1].key = "Avg Channels"
            ELSE {run.groups[k].key : k \in 1..Len(run.groups)} = chans
  /\ (/\ run.op = "_update_plot_display" /\ evokeds_data.ok
      /\ float(entries.time_start).ok /\ float(entries.time_end).ok
      /\ (entries.y_min = "" \/ entries.y_max = ""
          \/ (float(entries.y_min).ok /\ float(entries.y_max).ok))
      /\ stripped(entries.channels) # <<>> /\ stripped(entries.bins) # <<>>
      /\ ~NotIntegers(entries.bins))
     => run.ret = "drawn"

C3_Witness ==
  /\ run.ret = "drawn" /\ entries.avg_channels /\ run.groups # <<>>
  /\ \E i \in 1..Len(run.target_bin_indices) : run.target_bin_indices[i] < 0
  /\ \E i \in 1..Len(run.target_bin_indices) :
       run.target_bin_indices[i] >= Len(evokeds_data.val)
  /\ Len(run.groups[1].items) = 1

\* C7 as first stated: with a dataset loaded, a garbled time-start, time-end,
\* Y-min, Y-max or bin-list entry makes _update_plot_display show an error
\* and return, and with a plot drawn a garbled DPI makes _export_plot do so.
C7_AnyGarbledFieldIsAnError ==
  /\ (/\ run.op = "_update_plot_display" /\ evokeds_data.ok
      /\ \/ Garbled(entries.time_start) \/ Garbled(entries.time_end)
         \/ Garbled(entries.y_min) \/ Garbled(entries.y_max)
         \/ NotIntegers(entries.bins))
     => (ErrorShown(run) /\ run.ret # "drawn")
  /\ (run.op = "_export_plot" /\ has_data(ax) /\ ~int(run.dpi_text).ok)
     => (ErrorShown(run) /\ run.ret = "bad_dpi")

\* C7: _update_plot_display and _export_plot never change evokeds_data.  With
\* a dataset loaded, a garbled time-start, time-end or bin-list entry, or a
\* garbled Y-min or Y-max entry while both Y fields are filled in, makes
\* _update_plot_display show an error and return with the axes as they were;
\* with a plot on the axes a garbled DPI entry makes _export_plot show an
\* error and return.  (A garbled Y entry next to an empty one is not parsed.)
C7_GarbledEntriesReported ==
  [][/\ run'.op \in {"_update_plot_display", "_export_plot"} => evokeds_data' = evokeds_data
     /\ (/\ run'.op = "_update_plot_display" /\ evokeds_data.ok
         /\ \/ Garbled(entries'.time_start) \/ Garbled(entries'.time_end)
            \/ (/\ entries'.y_min # "" /\ entries'.y_max # ""
                /\ (Garbled(entries'.y_min) \/ Garbled(entries'.y_max)))
            \/ NotIntegers(entries'.bins))
        => (ErrorShown(run') /\ run'.ret # "drawn" /\ ax' = ax)
     /\ (run'.op = "_export_plot" /\ has_data(ax) /\ ~int(run'.dpi_text).ok)
        => (ErrorShown(run') /\ run'.ret = "bad_dpi" /\ ax' = ax)]_vars

C7_Witness ==
  /\ run.op = "_update_plot_display" /\ evokeds_data.ok /\ has_data(ax)
  /\ entries.y_min = "abc" /\ entries.y_max = "5"
  /\ ErrorShown(run) /\ run.ret = "numeric_error"

\* ---- loading and converting (checked under Spec)
\* the return points of _update_plot_display
PlotReturns ==
  {"no_data", "numeric_error", "channels_required", "bins_required", "bad_format",
   "no_valid_channels", "no_valid_bins", "drawn"}
\* the handlers that may call _load_fif_data
Loaders == {"_browse_and_load_fif", "_run_conversion"}
\* the run r ended inside _load_fif_data: on one of its two failure paths, or
\* in the _update_plot_display it calls after a successful read
LoadFailed(r) == r.op \in Loaders /\ r.ret \in {"not_found", "load_error"}
LoadSucceeded(r) == r.op \in Loaders /\ r.ret \in PlotReturns
\* what mne.read_evokeds returns for the file now at path
ContentOf(files, path) == Some(read_evokeds(files[path].evokeds))

\* C11: a successful _load_fif_data leaves in evokeds_data exactly what the
\* file holds, a failed one (file missing or unreadable) leaves None and the
\* plot in its initial state with no legend handles, and no other step touches
\* evokeds_data; so after every step the dataset is None or the content of the
\* file named by current_fif_file, the last one loaded successfully.
C11_DatasetIsLastLoad ==
  [][/\ LoadSucceeded(run') =>
          evokeds_data' = ContentOf(fif_files', current_fif_file')
     /\ LoadFailed(run') =>
          /\ evokeds_data' = NoList
          /\ ax' = initial_axes
          /\ last_plot_handles' = <<>> /\ last_plot_labels' = <<>>
     /\ (~LoadSucceeded(run') /\ ~LoadFailed(run')) => evokeds_data' = evokeds_data
     /\ evokeds_data'.ok =>
          /\ current_fif_file' \in FifPaths
          /\ fif_files'[current_fif_file'].state = "written"
          /\ evokeds_data' = ContentOf(fif_files', current_fif_file')
    ]_vars

\* a converted file exists, so its dataset was loaded, and the unreadable
\* file chosen afterwards left no dataset and the initial plot
C11_Witness ==
  /\ run.op = "_browse_and_load_fif" /\ run.ret = "load_error"
  /\ fif_files["data/out.fif"] # Absent
  /\ current_fif_file = "data/old.fif"
  /\ evokeds_data = NoList /\ ax = initial_axes /\ last_plot_labels = <<>>

\* ---- marker lines (checked under Spec)
\* the numeric entries of a comma-separated field, in order
NumericEntries(pieces) ==
  LET xs == SelectSeq(stripped(pieces), LAMBDA x : float(x).ok)
  IN [i \in 1..Len(xs) |-> float(xs[i]).val]

\* C12: a plot drawn from a V-Lines field that mixes numeric and non-numeric
\* entries shows one vertical marker line for every numeric entry of the
\* field, and a warning for the rest.
C12_NumericMarkersDrawn ==
  run.ret = "drawn" => ax.vlines = NumericEntries(entries.v_lines)

\* ---- legends (checked under LegendSpec)
\* the labels given to the lines now on the axes, in drawing order
SeriesLabels(axes) == [i \in 1..Len(axes.lines) |-> axes.lines[i].label]

\* C13: last_plot_handles and last_plot_labels have the same length and are,
\* in order, the lines now drawn on the axes and their labels; so with a line
\* on the axes last_plot_labels is not empty, and Edit Legends opens its
\* dialog instead of showing the 'No Legends' warning.
C13_HandlesMatchSeries ==
  /\ Len(last_plot_handles) = Len(last_plot_labels)
  /\ last_plot_handles = ax.lines
  /\ last_plot_labels = SeriesLabels(ax)
  /\ (ax.lines # <<>> /\ run.op = "_edit_legends") => run.ret = "opened"

\* C14: a plot update or a file load leaves custom_legend_labels as it was,
\* and the legend of the plot it draws shows, for every line, the custom text
\* stored for the line's default label, or the default label if none is stored.
C14_CustomLabelsKept ==
  [][(run'.op \in Loaders \cup {"_update_plot_display"}) =>
       /\ custom_legend_labels' = custom_legend_labels
       /\ run'.ret = "drawn" =>
            ax'.legend = [i \in 1..Len(ax'.lines) |->
                            IF ax'.lines[i].label \in DOMAIN custom_legend_labels
                            THEN custom_legend_labels[ax'.lines[i].label]
                            ELSE ax'.lines[i].label]
    ]_vars

\* a file load has drawn a line whose default label was given a custom text
\* in an earlier dialog, and its legend shows that text
C14_Witness ==
  /\ run.op \in Loaders /\ run.ret = "drawn"
  /\ \E i \in 1..Len(ax.lines) :
       /\ ax.lines[i].label \in DOMAIN custom_legend_labels
       /\ custom_legend_labels[ax.lines[i].label] \in CustomTexts
       /\ ax.legend[i] = custom_legend_labels[ax.lines[i].label]

\* C16: after Reset to Defaults custom_legend_labels maps no label to a text
\* other than the label itself, whether or not its series is in the current
\* plot, and every legend entry of the current plot is its default label.
C16_ResetRestoresDefaults ==
  [][run'.op = "on_reset" =>
       /\ \A l \in DOMAIN custom_legend_labels' : custom_legend_labels'[l] = l
       /\ ax'.lines # <<>>
       /\ ax'.legend = SeriesLabels(ax')
    ]_vars

\* Reset to Defaults was pressed on a plot of two lines
C16_Witness ==
  /\ run.op = "on_reset" /\ dialog.open
  /\ Len(ax.lines) = 2 /\ ax.legend = SeriesLabels(ax)
  /\ DOMAIN custom_legend_labels = Range(last_plot_labels)

\* ---- the conversion frame (checked under LegendSpec)
\* _run_conversion does not get to a successful erp_to_fif: the input path is
\* empty or names no file, the output path is empty, or erp_to_fif fails
Rejected(input_file, output_file, write_ok) ==
  \/ input_file = "" \/ input_file \notin DOMAIN erp_files
  \/ output_file = ""
  \/ ~erp_to_fif(input_file, output_file, erp_files, write_ok).ok

\* C15: a _run_conversion that is rejected or whose erp_to_fif fails leaves
\* evokeds_data, current_fif_file, the axes and the legend lists as they were
\* and does not enter _load_fif_data; any other _run_conversion sets
\* current_fif_file to the output path and ends inside _load_fif_data of that
\* file, whose content is then the dataset.
C15_FailedConversionChangesNothing ==
  [][run'.op = "_run_conversion" =>
     \A input_file \in InputTexts, output_file \in OutputTexts, write_ok \in BOOLEAN :
       RunConversionWith(input_file, output_file, write_ok) =>
         IF Rejected(input_file, output_file, write_ok)
         THEN /\ UNCHANGED <<evokeds_data, current_fif_file, ax,
                             last_plot_handles, last_plot_labels, fif_files>>
              /\ ~LoadFailed(run') /\ ~LoadSucceeded(run')
         ELSE /\ current_fif_file' = output_file
              /\ LoadSucceeded(run')
              /\ evokeds_data' = ContentOf(fif_files', output_file)
    ]_vars

\* a conversion failed while a dataset was loaded and plotted, and both are
\* still there
C15_Witness ==
  /\ run.op = "_run_conversion" /\ run.ret = "conversion_failed"
  /\ evokeds_data.ok /\ ax.lines # <<>> /\ last_plot_labels # <<>>
  /\ current_fif_file \in FifPaths

====
